---- MODULE Spec2Model ----
(***************************************************************************)
(* Model of src/app.py: a Streamlit chat over uploaded PDF files.          *)
(*                                                                         *)
(* One action is one run of main() that changes the session: a press of    *)
(* "Processar PDFs" or a submitted chat input.  The session state is       *)
(* st.session_state; `ultimo` records what the last run did (its inputs,   *)
(* the prompt it rendered, the index queries it made, what it handed to    *)
(* the chat model) so that the properties can speak about a run.           *)
(*                                                                         *)
(* A text is a sequence of one-character strings.  A document text is a    *)
(* sequence of lines; every line stands for a newline-terminated line of   *)
(* more than 300 and at most 500 characters, which the splitter of         *)
(* obter_base_vetores_dos_pdfs (separator '\n', chunk_size 500,            *)
(* chunk_overlap 200) turns into one chunk each.                           *)
(***************************************************************************)
EXTENDS Integers, Sequences, FiniteSets

VARIABLES historico_chat, base_vetores, texto_completo,
          prompt_sistema_desabilitado, ultimo

vars == <<historico_chat, base_vetores, texto_completo,
          prompt_sistema_desabilitado, ultimo>>

sessao == <<historico_chat, base_vetores, texto_completo,
            prompt_sistema_desabilitado>>

(***************************************************************************)
(* Bounds of the model.                                                    *)
(***************************************************************************)
\* Longest history a run may start to grow.
MaxHist == 4
\* Most files in one upload batch.
MaxArquivos == 2
\* Most pieces a generated question of the classifier check is made of.
MaxPartes == 3

\* k of similarity_search, app.py line 183.
K_BUSCA == 3

\* Python's None, and a present value v as <<v>>.
Nenhum == <<>>

(***************************************************************************)
(* str.lower(), str.upper(), str.swapcase() on the letters used.           *)
(***************************************************************************)
MAIUSCULAS ==
    <<"A", "B", "C", "D", "E", "F", "G", "H", "I", "J", "K", "L", "M",
      "N", "O", "P", "Q", "R", "S", "T", "U", "V", "W", "X", "Y", "Z",
      "Á", "Í">>

MINUSCULAS ==
    <<"a", "b", "c", "d", "e", "f", "g", "h", "i", "j", "k", "l", "m",
      "n", "o", "p", "q", "r", "s", "t", "u", "v", "w", "x", "y", "z",
      "á", "í">>

posicao(c, alfabeto) ==
    IF \E i \in DOMAIN alfabeto : alfabeto[i] = c
    THEN CHOOSE i \in DOMAIN alfabeto : alfabeto[i] = c
    ELSE 0

lower_char(c) ==
    IF posicao(c, MAIUSCULAS) > 0 THEN MINUSCULAS[posicao(c, MAIUSCULAS)] ELSE c

upper_char(c) ==
    IF posicao(c, MINUSCULAS) > 0 THEN MAIUSCULAS[posicao(c, MINUSCULAS)] ELSE c

swapcase_char(c) ==
    IF posicao(c, MAIUSCULAS) > 0 THEN lower_char(c) ELSE upper_char(c)

lower(s) == [i \in 1..Len(s) |-> lower_char(s[i])]

upper(s) == [i \in 1..Len(s) |-> upper_char(s[i])]

swapcase(s) == [i \in 1..Len(s) |-> swapcase_char(s[i])]

\* Python's `sub in s` on strings.
contem(sub, s) ==
    \E i \in 0..(Len(s) - Len(sub)) : SubSeq(s, i + 1, i + Len(sub)) = sub

(***************************************************************************)
(* detectar_pedido_resumo, app.py lines 59-65.                             *)
(***************************************************************************)
palavras_chave_resumo ==
    << <<"r", "e", "s", "u", "m", "o">>,
       <<"r", "e", "s", "u", "m", "a">>,
       <<"r", "e", "s", "u", "m", "i", "r">>,
       <<"s", "i", "n", "t", "e", "t", "i", "z", "a", "r">>,
       <<"s", "í", "n", "t", "e", "s", "e">>,
       <<"s", "u", "m", "a", "r", "i", "z", "a", "r">>,
       <<"s", "u", "m", "á", "r", "i", "o">>,
       <<"o", "v", "e", "r", "v", "i", "e", "w">>,
       <<"p", "r", "i", "n", "c", "i", "p", "a", "i", "s", " ",
         "p", "o", "n", "t", "o", "s">> >>

\* The classifier with the call of lower() left out.
detectar_pedido_resumo_sem_lower(pergunta) ==
    \E p \in DOMAIN palavras_chave_resumo :
        contem(palavras_chave_resumo[p], pergunta)

detectar_pedido_resumo(pergunta) ==
    \E p \in DOMAIN palavras_chave_resumo :
        contem(palavras_chave_resumo[p], lower(pergunta))

(***************************************************************************)
(* Uploaded files.  A file is readable or not (PdfReader raises on it),    *)
(* and holds pages; a page's extract_text() is a sequence of lines.        *)
(***************************************************************************)
ARQUIVO_A == [legivel |-> TRUE, paginas |-> << <<"L1">> >>]

ARQUIVO_B == [legivel |-> TRUE, paginas |-> << <<"L1">>, <<"L2">> >>]

ARQUIVO_CORROMPIDO == [legivel |-> FALSE, paginas |-> << >>]

Arquivos == {ARQUIVO_A, ARQUIVO_B, ARQUIVO_CORROMPIDO}

\* st.file_uploader's value when the button is shown: a non-empty list.
Lotes == UNION {[1..n -> Arquivos] : n \in 1..MaxArquivos}

\* The inner loop of extrair_texto_completo, app.py lines 31-33.
RECURSIVE texto_das_paginas(_)
texto_das_paginas(paginas) ==
    IF paginas = <<>> THEN <<>>
    ELSE Head(paginas) \o texto_das_paginas(Tail(paginas))

\* extrair_texto_completo, app.py lines 21-34; ok = FALSE when it raises.
RECURSIVE extrair_texto_completo(_)
extrair_texto_completo(arquivos) ==
    IF arquivos = <<>> THEN [ok |-> TRUE, documento |-> <<>>]
    ELSE IF ~Head(arquivos).legivel THEN [ok |-> FALSE, documento |-> <<>>]
    ELSE LET resto == extrair_texto_completo(Tail(arquivos))
         IN  IF resto.ok
             THEN [ok |-> TRUE,
                   documento |-> texto_das_paginas(Head(arquivos).paginas)
                                 \o resto.documento]
             ELSE [ok |-> FALSE, documento |-> <<>>]

\* divisor_texto.split_text, app.py lines 42-50: one chunk per line (see the
\* module's header for the lines modelled).
split_text(documento) == [i \in 1..Len(documento) |-> documento[i]]

\* obter_base_vetores_dos_pdfs, app.py lines 36-57.  embeddings_ok = FALSE:
\* the embedding service fails and FAISS.from_texts raises.  The index is
\* the sequence of the chunks it stores.
obter_base_vetores_dos_pdfs(arquivos, embeddings_ok) ==
    LET extraido == extrair_texto_completo(arquivos)
        pedacos_documento == split_text(extraido.documento)
    IN  IF extraido.ok /\ embeddings_ok
        THEN [ok |-> TRUE, base_vetores |-> pedacos_documento,
              documento |-> extraido.documento]
        ELSE [ok |-> FALSE, base_vetores |-> <<>>, documento |-> <<>>]

\* The injective sequences of n positions of 1..m.
selecoes(n, m) ==
    {s \in [1..n -> 1..m] : \A i, j \in 1..n : i # j => s[i] # s[j]}

menor(a, b) == IF a <= b THEN a ELSE b

\* base_vetores.similarity_search(pergunta, k): the results the index can
\* give, min(k, size) stored chunks in the order of their distance to the
\* question, which the embeddings decide.
similarity_search(base, pergunta, k) ==
    {[i \in 1..menor(k, Len(base)) |-> base[s[i]]] :
        s \in selecoes(menor(k, Len(base)), Len(base))}

(***************************************************************************)
(* Message contents.  A content is a literal text or a rendered template.  *)
(***************************************************************************)
Literal(texto) ==
    [template |-> "literal", fragmentos |-> <<>>, documento |-> <<>>,
     texto |-> texto]

\* montar_prompt_resumo, app.py lines 67-89.
montar_prompt_resumo(texto, instrucoes_usuario) ==
    [template |-> "resumo", fragmentos |-> <<>>, documento |-> texto,
     texto |-> instrucoes_usuario]

\* montar_prompt_rag, app.py lines 91-113.
montar_prompt_rag(fragmentos, pergunta) ==
    [template |-> "rag",
     fragmentos |-> [i \in 1..Len(fragmentos) |->
                        [indice |-> i, page_content |-> fragmentos[i]]],
     documento |-> <<>>,
     texto |-> pergunta]

SemPrompt == Literal(<<>>)

SystemMessage(content) == [tipo |-> "System", content |-> content]

HumanMessage(content) == [tipo |-> "Human", content |-> content]

AIMessage(content) == [tipo |-> "AI", content |-> content]

\* 'Olá, sou um bot. Como posso ajudar?', app.py line 167, shortened.
SAUDACAO == Literal(<<"O", "l", "á">>)

(***************************************************************************)
(* Inputs.                                                                 *)
(***************************************************************************)
\* st.text_area's value: empty, or a persona description.
Personas == {<<>>, <<"p", "1">>, <<"p", "2">>}

P_VAZIA == <<>>

P_ESPACO == <<" ">>

P_RESUMO == <<"R", "E", "S", "U", "M", "O">>

P_QUAL == <<"q", "u", "a", "l">>

\* st.chat_input's value in a run where the chat input was submitted.
PerguntasSessao == {P_VAZIA, P_ESPACO, P_RESUMO, P_QUAL}

\* resposta.content of chat.invoke.
Respostas == {<<"o", "k">>, <<"n", "s">>}

UltimoInicial ==
    [op |-> "inicio", pergunta |-> <<>>, variante |-> <<>>,
     resumo |-> FALSE, resumo_variante |-> FALSE,
     prompt |-> SemPrompt, consultas |-> <<>>, entrada_modelo |-> <<>>,
     resposta |-> <<>>, prompt_sistema |-> <<>>, inseriu |-> FALSE]

\* main, app.py lines 117-128.
Init ==
    /\ historico_chat = <<>>
    /\ base_vetores = Nenhum
    /\ texto_completo = Nenhum
    /\ prompt_sistema_desabilitado = FALSE
    /\ ultimo = UltimoInicial

(***************************************************************************)
(* "Processar PDFs", app.py lines 156-172.                                 *)
(***************************************************************************)
tem_system(historico) ==
    \E i \in 1..Len(historico) : historico[i].tipo = "System"

\* The insertion with the test for a System message left out.
adicionar_prompt_sistema_sempre(historico, prompt_sistema) ==
    IF prompt_sistema # <<>>
    THEN <<SystemMessage(Literal(prompt_sistema))>> \o historico
    ELSE historico

\* app.py lines 161-162.
adicionar_prompt_sistema(historico, prompt_sistema) ==
    IF prompt_sistema # <<>> /\ ~tem_system(historico)
    THEN <<SystemMessage(Literal(prompt_sistema))>> \o historico
    ELSE historico

\* The index cleared before the documents are processed.
base_apos_processar_limpando(atual, resultado) ==
    IF resultado.ok THEN <<resultado.base_vetores>> ELSE Nenhum

\* app.py line 169, left target: assigned once the call has returned.
base_apos_processar(atual, resultado) ==
    IF resultado.ok THEN <<resultado.base_vetores>> ELSE atual

\* The text kept once it is set.
texto_apos_processar_uma_vez(atual, resultado) ==
    IF resultado.ok /\ atual = Nenhum THEN <<resultado.documento>> ELSE atual

\* app.py line 169, right target.
texto_apos_processar(atual, resultado) ==
    IF resultado.ok THEN <<resultado.documento>> ELSE atual

ProcessarPDFs ==
    \E prompt_sistema \in Personas, arquivos \in Lotes,
       embeddings_ok \in BOOLEAN :
        /\ Len(historico_chat) + 2 <= MaxHist
        /\ LET inserir == prompt_sistema # <<>> /\ ~tem_system(historico_chat)
               com_persona ==
                   adicionar_prompt_sistema(historico_chat, prompt_sistema)
               resultado ==
                   obter_base_vetores_dos_pdfs(arquivos, embeddings_ok)
           IN  /\ historico_chat' = Append(com_persona, AIMessage(SAUDACAO))
               /\ prompt_sistema_desabilitado' =
                      (inserir \/ prompt_sistema_desabilitado)
               /\ base_vetores' = base_apos_processar(base_vetores, resultado)
               /\ texto_completo' =
                      texto_apos_processar(texto_completo, resultado)
               /\ ultimo' =
                      [UltimoInicial EXCEPT
                          !.op = IF resultado.ok THEN "processar_ok"
                                 ELSE "processar_falha",
                          !.prompt_sistema = prompt_sistema,
                          !.inseriu = inserir]

(***************************************************************************)
(* A submitted chat input, app.py lines 174-196.                           *)
(***************************************************************************)
\* app.py line 178.
pergunta_aceita(pergunta) == pergunta # <<>>

\* The retrieval with k one larger.
preparar_prompt_k_maior(base, texto, pergunta) ==
    IF detectar_pedido_resumo(pergunta)
    THEN {[prompt |-> montar_prompt_resumo(texto, pergunta),
           consultas |-> <<>>]}
    ELSE {[prompt |-> montar_prompt_rag(documentos_relevantes, pergunta),
           consultas |-> <<K_BUSCA + 1>>] :
              documentos_relevantes \in
                  similarity_search(base, pergunta, K_BUSCA + 1)}

\* app.py lines 180-184: the prompts the run can render, each with the
\* index queries made for it.
preparar_prompt(base, texto, pergunta) ==
    IF detectar_pedido_resumo(pergunta)
    THEN {[prompt |-> montar_prompt_resumo(texto, pergunta),
           consultas |-> <<>>]}
    ELSE {[prompt |-> montar_prompt_rag(documentos_relevantes, pergunta),
           consultas |-> <<K_BUSCA>>] :
              documentos_relevantes \in
                  similarity_search(base, pergunta, K_BUSCA)}

\* The history without its last entry: list.pop().
pop(historico) == SubSeq(historico, 1, Len(historico) - 1)

\* The answer appended with the rendered prompt left in place.
concluir_resposta_sem_pop(historico, pergunta, resposta) ==
    Append(Append(historico, HumanMessage(Literal(pergunta))),
           AIMessage(Literal(resposta)))

\* app.py lines 194-196.
concluir_resposta(historico, pergunta, resposta) ==
    Append(Append(pop(historico), HumanMessage(Literal(pergunta))),
           AIMessage(Literal(resposta)))

\* The chat input gave '' : nothing is processed.
IgnorarPergunta ==
    \E pergunta \in PerguntasSessao :
        /\ base_vetores # Nenhum
        /\ ~pergunta_aceita(pergunta)
        /\ ultimo' = [UltimoInicial EXCEPT !.op = "pergunta_ignorada",
                                           !.pergunta = pergunta]
        /\ UNCHANGED sessao

\* chat.invoke returns an answer.
ResponderPergunta ==
    \E pergunta \in PerguntasSessao, resposta \in Respostas :
        /\ base_vetores # Nenhum
        /\ pergunta_aceita(pergunta)
        /\ Len(historico_chat) + 2 <= MaxHist
        /\ \E preparado \in
                 preparar_prompt(base_vetores[1], texto_completo[1], pergunta) :
              LET com_prompt ==
                      Append(historico_chat, HumanMessage(preparado.prompt))
              IN  /\ historico_chat' =
                         concluir_resposta(com_prompt, pergunta, resposta)
                  /\ ultimo' =
                         [UltimoInicial EXCEPT
                             !.op = "resposta_ok",
                             !.pergunta = pergunta,
                             !.resumo = detectar_pedido_resumo(pergunta),
                             !.prompt = preparado.prompt,
                             !.consultas = preparado.consultas,
                             !.entrada_modelo = com_prompt,
                             !.resposta = resposta]
        /\ UNCHANGED <<base_vetores, texto_completo,
                       prompt_sistema_desabilitado>>

\* chat.invoke raises: the run ends at line 191.
FalharGeracao ==
    \E pergunta \in PerguntasSessao :
        /\ base_vetores # Nenhum
        /\ pergunta_aceita(pergunta)
        /\ Len(historico_chat) + 2 <= MaxHist
        /\ \E preparado \in
                 preparar_prompt(base_vetores[1], texto_completo[1], pergunta) :
              LET com_prompt ==
                      Append(historico_chat, HumanMessage(preparado.prompt))
              IN  /\ historico_chat' = com_prompt
                  /\ ultimo' =
                         [UltimoInicial EXCEPT
                             !.op = "resposta_falha",
                             !.pergunta = pergunta,
                             !.resumo = detectar_pedido_resumo(pergunta),
                             !.prompt = preparado.prompt,
                             !.consultas = preparado.consultas,
                             !.entrada_modelo = com_prompt]
        /\ UNCHANGED <<base_vetores, texto_completo,
                       prompt_sistema_desabilitado>>

Next ==
    \/ ProcessarPDFs
    \/ IgnorarPergunta
    \/ ResponderPergunta
    \/ FalharGeracao

Spec == Init /\ [][Next]_vars

(***************************************************************************)
(* The classifier alone, on questions put together from pieces, each       *)
(* classified together with a variant of it that differs in letter case    *)
(* only.                                                                   *)
(***************************************************************************)
Partes ==
    { <<"r", "e", "s", "u">>, <<"M", "O">>,
      <<"S", "í", "n">>, <<"t", "e", "s", "e">>,
      <<"o", "v", "e", "r">>, <<"V", "I", "E", "W">>,
      <<"p", "r", "i", "n", "c", "i", "p", "a", "i", "s">>,
      <<" ", "p", "o", "n", "t", "o", "s">>,
      <<"q", "u", "a", "l">> }

RECURSIVE juntar(_)
juntar(partes) ==
    IF partes = <<>> THEN <<>> ELSE Head(partes) \o juntar(Tail(partes))

PerguntasGeradas ==
    {juntar(partes) : partes \in UNION {[1..n -> Partes] : n \in 0..MaxPartes}}

Variantes == {"lower", "upper", "swapcase"}

variar(v, s) ==
    CASE v = "lower" -> lower(s)
      [] v = "upper" -> upper(s)
      [] OTHER -> swapcase(s)

\* The session as created, and a question and its variant to classify.
InitClassificador ==
    /\ historico_chat = <<>>
    /\ base_vetores = Nenhum
    /\ texto_completo = Nenhum
    /\ prompt_sistema_desabilitado = FALSE
    /\ \E pergunta \in PerguntasGeradas, v \in Variantes :
           ultimo = [UltimoInicial EXCEPT !.op = "a_classificar",
                                          !.pergunta = pergunta,
                                          !.variante = variar(v, pergunta)]

\* detectar_pedido_resumo called on the question and on its variant; it reads
\* and writes nothing of the session.
Classificar ==
    /\ ultimo.op = "a_classificar"
    /\ ultimo' =
           [ultimo EXCEPT
               !.op = "classificar",
               !.resumo = detectar_pedido_resumo(ultimo.pergunta),
               !.resumo_variante = detectar_pedido_resumo(ultimo.variante)]
    /\ UNCHANGED sessao

NextClassificador == Classificar

SpecClassificador == InitClassificador /\ [][NextClassificador]_vars

(***************************************************************************)
(* Properties.                                                             *)
(***************************************************************************)
eh_prompt_montado(mensagem) == mensagem.content.template # "literal"

tem_prompt_montado(historico) ==
    \E i \in 1..Len(historico) : eh_prompt_montado(historico[i])

ultimos_dois(historico) == SubSeq(historico, Len(historico) - 1, Len(historico))

foi_turno == ultimo.op \in {"resposta_ok", "resposta_falha"}

foi_processamento == ultimo.op \in {"processar_ok", "processar_falha"}

\* Empty, or made of spaces only.
so_espacos(s) == \A i \in 1..Len(s) : s[i] = " "

\* C1: after a successful turn on a non-blank question Q with answer A the
\* last two entries of the history are (Human, Q) and (AI, A), and no entry of the
\* history holds a rendered prompt template.
C1_TurnoSemPromptMontado ==
    (ultimo.op = "resposta_ok" /\ ~so_espacos(ultimo.pergunta)) =>
        /\ Len(historico_chat) >= 2
        /\ ultimos_dois(historico_chat) =
               <<HumanMessage(Literal(ultimo.pergunta)),
                 AIMessage(Literal(ultimo.resposta))>>
        /\ ~tem_prompt_montado(historico_chat)

\* C2: a turn on a non-blank question whose generator call fails leaves the
\* history as it
\* was before the turn, with no rendered prompt in it.
C2_FalhaRetraiPrompt ==
    [][(ultimo'.op = "resposta_falha" /\ ~so_espacos(ultimo'.pergunta)) =>
          /\ historico_chat' = historico_chat
          /\ ~tem_prompt_montado(historico_chat')]_vars

\* C3: the history holds at most one System message, and only at its first
\* position; after an ingestion with a non-empty persona text it holds
\* exactly one, there.
C3_NoMaximoUmSystem ==
    /\ \A i \in 1..Len(historico_chat) :
           historico_chat[i].tipo = "System" => i = 1
    /\ (foi_processamento /\ ultimo.prompt_sistema # <<>>) =>
           /\ Len(historico_chat) >= 1
           /\ historico_chat[1].tipo = "System"

\* C3's case: a second ingestion with the persona text that is already the
\* System message.
C3_MesmaPersonaDuasVezes ==
    /\ ultimo.op = "processar_ok"
    /\ ultimo.prompt_sistema # <<>>
    /\ ~ultimo.inseriu
    /\ historico_chat[1] = SystemMessage(Literal(ultimo.prompt_sistema))
    /\ Cardinality({i \in 1..Len(historico_chat) :
                       historico_chat[i].tipo = "System"}) = 1

\* C4: an ingestion that fails adds no System message to the history and
\* does not lock the persona input.
C4_PersonaSoAposSucesso ==
    [][ultimo'.op = "processar_falha" =>
          /\ tem_system(historico_chat') => tem_system(historico_chat)
          /\ prompt_sistema_desabilitado' = prompt_sistema_desabilitado]_vars

C6_FalhaPreservaIndice ==
    [][ultimo'.op = "processar_falha" =>
          /\ base_vetores' = base_vetores
          /\ texto_completo' = texto_completo]_vars

\* C6's case: an ingestion failed in a session that held an index.
C6_FalhaComIndiceAnterior ==
    /\ ultimo.op = "processar_falha"
    /\ base_vetores # Nenhum
    /\ texto_completo # Nenhum

\* C7: an empty or whitespace-only chat input leaves the history unchanged
\* and the generator is not invoked for it.
C7_EntradaEmBrancoIgnorada ==
    [][(ultimo'.op \in {"pergunta_ignorada", "resposta_ok", "resposta_falha"}
        /\ so_espacos(ultimo'.pergunta)) =>
          /\ historico_chat' = historico_chat
          /\ ultimo'.entrada_modelo = <<>>]_vars

conteudos(fragmentos) ==
    {fragmentos[i].page_content : i \in 1..Len(fragmentos)}

\* C8: a processed question classified as lookup queries the index once,
\* with k = 3, and its prompt is the lookup template over min(3, size)
\* chunks of the index, numbered from 1; one classified as summary makes no
\* query and its prompt is the summary template over the session's whole
\* extracted text.
C8_EstrategiaPeloVeredito ==
    foi_turno =>
        IF ultimo.resumo
        THEN /\ ultimo.consultas = <<>>
             /\ ultimo.prompt.template = "resumo"
             /\ ultimo.prompt.documento = texto_completo[1]
             /\ ultimo.prompt.fragmentos = <<>>
             /\ ultimo.prompt.texto = ultimo.pergunta
        ELSE /\ ultimo.consultas = <<3>>
             /\ ultimo.prompt.template = "rag"
             /\ Len(ultimo.prompt.fragmentos) <= 3
             /\ Len(ultimo.prompt.fragmentos) = menor(3, Len(base_vetores[1]))
             /\ \A i \in 1..Len(ultimo.prompt.fragmentos) :
                    ultimo.prompt.fragmentos[i].indice = i
             /\ conteudos(ultimo.prompt.fragmentos)
                    \subseteq {base_vetores[1][i] : i \in 1..Len(base_vetores[1])}
             /\ ultimo.prompt.documento = <<>>
             /\ ultimo.prompt.texto = ultimo.pergunta

\* C8's case: a lookup question answered over an index of more than 3 chunks.
C8_BuscaEmIndiceMaior ==
    /\ ultimo.op = "resposta_ok"
    /\ ~ultimo.resumo
    /\ Len(base_vetores[1]) > 3
    /\ Len(ultimo.prompt.fragmentos) = 3

\* Some keyword is found in s at some offset, letter by letter, each letter
\* of s taken in lower case.
ocorre_palavra_chave(s) ==
    \E p \in DOMAIN palavras_chave_resumo :
        \E i \in 1..Len(s) :
            /\ i + Len(palavras_chave_resumo[p]) - 1 <= Len(s)
            /\ \A j \in 1..Len(palavras_chave_resumo[p]) :
                   lower_char(s[i + j - 1]) = palavras_chave_resumo[p][j]

mesmas_letras(s, t) ==
    /\ Len(s) = Len(t)
    /\ \A i \in 1..Len(s) : lower_char(s[i]) = lower_char(t[i])

\* C9: the classifier answers true exactly when the lower-cased question
\* holds a keyword as a substring, answers the same for a question that
\* differs in letter case only, and leaves the session as it was.
C9_Classificador ==
    ultimo.op = "classificar" =>
        /\ ultimo.resumo <=> ocorre_palavra_chave(ultimo.pergunta)
        /\ mesmas_letras(ultimo.pergunta, ultimo.variante)
        /\ ultimo.resumo_variante = ultimo.resumo
        /\ historico_chat = <<>>
        /\ base_vetores = Nenhum
        /\ texto_completo = Nenhum
        /\ prompt_sistema_desabilitado = FALSE

\* C9's case: a keyword written with capital letters is found.
C9_PalavraChaveEmMaiusculas ==
    /\ ultimo.op = "classificar"
    /\ ultimo.resumo
    /\ ~detectar_pedido_resumo_sem_lower(ultimo.pergunta)
    /\ ultimo.variante # ultimo.pergunta

====
